---- MODULE Spec2Model ----
(***************************************************************************)
(* Model of src/src/tensorflow_module.py: the TensorflowModule adapter     *)
(* (validate_config, reconfigure, infer, metadata, do_command) and the     *)
(* helpers prepShape and prepType.                                         *)
(*                                                                         *)
(* The filesystem, the saved-model store that tf.saved_model.load reads    *)
(* and the result of invoking a loaded model are the environment; they are *)
(* drawn from the small sets defined below.                                *)
(***************************************************************************)
EXTENDS Integers, Sequences, FiniteSets, TLC

VARIABLES
    model,          \* self.model: handle of the loaded saved model
    model_path,     \* self.model_path
    label_path,     \* self.label_path
    input_info,     \* self.input_info: sequence of <<name, shape, dtype>>
    output_info,    \* self.output_info: sequence of <<name, shape, dtype>>
    resp,           \* outcome of the most recent call, as seen by the caller
    last_reconf,    \* the most recent reconfigure call: its config, how it
                    \* ended, and the adapter as it was when the call began
    vconfig,        \* validate_config: the configuration's model_path
    listing,        \* validate_config: content of the directory on disk
    vresp           \* validate_config: outcome and the warnings logged

vars == <<model, model_path, label_path, input_info, output_info, resp,
          last_reconf, vconfig, listing, vresp>>

adapter == <<model, model_path, label_path, input_info, output_info>>

(***************************************************************************)
(* Bounds                                                                  *)
(***************************************************************************)
MaxInputTensors == 2    \* entries of the mapping handed to infer
MaxResults == 2         \* tensors a model invocation produces
MaxEntries == 2         \* entries of the directory validate_config lists

(***************************************************************************)
(* Strings that the code inspects character by character are sequences of  *)
(* one-character strings.                                                  *)
(***************************************************************************)
RECURSIVE Find(_, _, _)
\* Python `sub in s`: least position >= i at which sub occurs in s, else 0
Find(sub, s, i) ==
    IF i + Len(sub) - 1 > Len(s) THEN 0
    ELSE IF SubSeq(s, i, i + Len(sub) - 1) = sub THEN i
    ELSE Find(sub, s, i + 1)

Contains(sub, s) == Find(sub, s, 1) # 0

\* every sequence of pairwise distinct elements of S of length at most n
DistinctSeqs(S, n) ==
    UNION { { q \in [1..k -> S] : \A i, j \in 1..k : i # j => q[i] # q[j] }
            : k \in 0..n }

Range(q) == { q[i] : i \in 1..Len(q) }

(***************************************************************************)
(* validate_config (lines 38-68)                                           *)
(***************************************************************************)
WarnMB == 500           \* line 57: sizeMB > 500

BytesPerMB == 1024 * 1024   \* line 56

GraphMarker == <<".", "p", "b">>    \* line 54: ".pb"

\* the one directory that exists on disk, and the files it may hold
DirPath == <<"m", "/">>

FileNames ==
    { <<"s", ".", "p", "b">>,                   \* saved_model.pb
      <<"k", ".", "p", "b", "t", "x", "t">>,    \* a .pbtxt file
      <<"v", "a", "r", "s">>,                   \* variables
      <<"p", "b">> }                            \* no marker: the dot is missing

FileSizes ==
    { 0, WarnMB * BytesPerMB - 1, WarnMB * BytesPerMB, WarnMB * BytesPerMB + 1 }

Directories ==
    UNION { [D -> FileSizes] :
            D \in { D \in SUBSET FileNames : Cardinality(D) <= MaxEntries } }

\* config.attributes.fields["model_path"].string_value
ConfigPaths == { <<>>, <<"m">>, <<"m", "/">>, <<"x">> }

\* os.listdir: the names in the directory, or FileNotFoundError
Listdir(path, dir) ==
    IF path \in { DirPath, <<"m">> }
    THEN [raised |-> FALSE, names |-> DOMAIN dir]
    ELSE [raised |-> TRUE, names |-> {}]

\* os.stat(path).st_size, or FileNotFoundError
Stat(path, dir) ==
    IF \E n \in DOMAIN dir : path = DirPath \o n
    THEN [raised |-> FALSE,
          st_size |-> dir[CHOOSE n \in DOMAIN dir : path = DirPath \o n]]
    ELSE [raised |-> TRUE, st_size |-> 0]

\* lines 47-48: add trailing / if not there
AddTrailingSlash(path) ==
    IF path[Len(path)] # "/" THEN path \o <<"/">> ELSE path

\* line 54: ".pb" in file
IsGraphFile(file) == Contains(GraphMarker, file)

\* line 56: st_size / (1024 * 1024) is a true division; the quotient is kept
\* as a fraction
SizeMBFloor(st_size) == [num |-> st_size \div BytesPerMB, den |-> 1]

SizeMB(st_size) == [num |-> st_size, den |-> BytesPerMB]

\* line 57: sizeMB > 500
TooLarge(sizeMB) == sizeMB.num > WarnMB * sizeMB.den

RECURSIVE ScanDir(_, _, _, _)
\* lines 53-62: the loop over os.listdir(model_path); acc holds isValid and
\* the files LOGGER.warn was called for
ScanDir(path, dir, todo, acc) ==
    IF todo = {} \/ acc.raised THEN acc
    ELSE LET file == CHOOSE f \in todo : TRUE
             st == Stat(path \o file, dir)
         IN  IF ~IsGraphFile(file) THEN ScanDir(path, dir, todo \ {file}, acc)
             ELSE IF st.raised
                  THEN [acc EXCEPT !.isValid = TRUE, !.raised = TRUE]
             ELSE ScanDir(path, dir, todo \ {file},
                     [acc EXCEPT !.isValid = TRUE,
                                 !.warned = IF TooLarge(SizeMB(st.st_size))
                                            THEN @ \cup {file} ELSE @])

Raised(err, warned) ==
    [outcome |-> "raised", error |-> err, value |-> <<>>, warned |-> warned]

ValidateConfig(path0, dir) ==
    IF path0 = <<>>
    THEN Raised("model_path must be the location of the Tensorflow SavedModel directory", {})
    ELSE LET path == AddTrailingSlash(path0)
             ls == Listdir(path, dir)
             scan == ScanDir(path, dir, ls.names,
                        [isValid |-> FALSE, raised |-> FALSE, warned |-> {}])
         IN  IF ls.raised \/ scan.raised
             THEN Raised("FileNotFoundError", scan.warned)
             ELSE IF ~scan.isValid
             THEN Raised("model_path must be the location of a SavedModel directory with a .pb file", scan.warned)
             ELSE [outcome |-> "returned", error |-> "", value |-> <<>>,
                   warned |-> scan.warned]

NotCalled == [outcome |-> "none", error |-> "", value |-> <<>>, warned |-> {}]

validate_config ==
    /\ vresp' = ValidateConfig(vconfig, listing)
    /\ UNCHANGED <<adapter, resp, last_reconf, vconfig, listing>>

(***************************************************************************)
(* The ML runtime: dtypes, shapes and the saved models on disk             *)
(***************************************************************************)
float32 == [name |-> <<"f", "l", "o", "a", "t", "3", "2">>]
int64 == [name |-> <<"i", "n", "t", "6", "4">>]
resource == [name |-> <<"r", "e", "s", "o", "u", "r", "c", "e">>]

\* str(dtype), e.g. "<dtype: 'float32'>"
DTypeStr(dtype) ==
    <<"<", "d", "t", "y", "p", "e", ":", " ", "'">> \o dtype.name \o <<"'", ">">>

\* line 90: ff.dtype != "resource"
NotResource(dtype) == dtype.name # <<"r", "e", "s", "o", "u", "r", "c", "e">>

\* a dimension of a TensorShape: an int, or None when unknown
Dim(n) == [known |-> TRUE, v |-> n]
NoneDim == [known |-> FALSE, v |-> 0]

\* a TensorShape: its dimensions, or of unknown rank (iterating it raises)
Shape(dims) == [rank_known |-> TRUE, dims |-> dims]
UnknownRank == [rank_known |-> FALSE, dims |-> <<>>]

InT(shape, dtype) == [shape |-> shape, dtype |-> dtype]
OutT(name, shape, dtype) == [name |-> name, shape |-> shape, dtype |-> dtype]

Signature(kw, ins, outs) ==
    [arg_keywords |-> kw, inputs |-> ins, outputs |-> outs]

\* What tf.saved_model.load finds at each path: the signatures of the model.
SavedModels ==
    [ mA |-> [serving_default |->
                Signature(<<"a">>,
                          <<InT(Shape(<<Dim(1), Dim(3)>>), float32)>>,
                          <<OutT("y", Shape(<<Dim(1), Dim(1)>>), float32)>>)],
      mB |-> [serving_default |->
                Signature(<<"b", "c">>,
                          <<InT(Shape(<<NoneDim, Dim(2)>>), int64),
                            InT(Shape(<<Dim(2)>>), float32),
                            InT(Shape(<<>>), resource)>>,
                          <<OutT("p", Shape(<<NoneDim, Dim(2)>>), float32),
                            OutT("q", Shape(<<NoneDim>>), int64)>>)],
      \* a resource among the keyword positions
      mR |-> [serving_default |->
                Signature(<<"a", "b">>,
                          <<InT(Shape(<<>>), resource),
                            InT(Shape(<<NoneDim>>), float32)>>,
                          <<OutT("y", Shape(<<Dim(1)>>), float32)>>)],
      \* more keyword names than declared inputs
      mK |-> [serving_default |->
                Signature(<<"a", "b">>,
                          <<InT(Shape(<<Dim(1)>>), float32)>>,
                          <<OutT("z", Shape(<<Dim(1)>>), float32)>>)],
      \* an output of unknown rank after one of known rank
      mU |-> [serving_default |->
                Signature(<<"c">>,
                          <<InT(Shape(<<Dim(4)>>), float32)>>,
                          <<OutT("u", Shape(<<Dim(1)>>), float32),
                            OutT("w", UnknownRank, float32)>>)],
      \* saved without a serving_default signature
      mN |-> [predict |->
                Signature(<<"a">>,
                          <<InT(Shape(<<Dim(1)>>), float32)>>,
                          <<OutT("y", Shape(<<Dim(1)>>), float32)>>)] ]

NoModel == "NoModel"

\* line 77: tf.saved_model.load(path); the handle is named by the path
SavedModelLoad(path) ==
    IF path \in DOMAIN SavedModels
    THEN [raised |-> FALSE, model |-> path]
    ELSE [raised |-> TRUE, model |-> NoModel]

Signatures(m) == SavedModels[m]

\* config.attributes.fields: model_path and label_path
Configs ==
    [model_path : DOMAIN SavedModels \cup {"", "missing"},
     label_path : {"", "labels.txt"}]

(***************************************************************************)
(* prepShape (lines 202-209) and prepType (lines 213-217)                  *)
(***************************************************************************)
RECURSIVE PrepDims(_, _, _)
PrepDims(dims, i, out) ==
    IF i > Len(dims) THEN out
    ELSE PrepDims(dims, i + 1,
                  Append(out, IF ~dims[i].known THEN -1 ELSE dims[i].v))

RECURSIVE PrepDimsZero(_, _, _)
PrepDimsZero(dims, i, out) ==
    IF i > Len(dims) THEN out
    ELSE PrepDimsZero(dims, i + 1,
                      Append(out, IF ~dims[i].known THEN 0 ELSE dims[i].v))

prepShapeZero(tensorShape) ==
    IF ~tensorShape.rank_known THEN [raised |-> TRUE, out |-> <<>>]
    ELSE [raised |-> FALSE, out |-> PrepDimsZero(tensorShape.dims, 1, <<>>)]

\* list(tensorShape) raises ValueError for a shape of unknown rank
prepShape(tensorShape) ==
    IF ~tensorShape.rank_known THEN [raised |-> TRUE, out |-> <<>>]
    ELSE [raised |-> FALSE, out |-> PrepDims(tensorShape.dims, 1, <<>>)]

\* line 216: the positions of the apostrophes in s
Apostrophes(s) ==
    LET RECURSIVE Scan(_, _)
        Scan(i, inds) ==
            IF i > Len(s) THEN inds
            ELSE Scan(i + 1, IF s[i] = "'" THEN Append(inds, i) ELSE inds)
    IN  Scan(1, <<>>)

\* line 217: s[inds[0] + 1 : inds[1]]
prepType(tensorType) ==
    LET s == DTypeStr(tensorType)
        inds == Apostrophes(s)
    IN  SubSeq(s, inds[1] + 1, inds[2] - 1)

(***************************************************************************)
(* reconfigure (lines 70-96)                                               *)
(***************************************************************************)
Self == [model |-> model, model_path |-> model_path, label_path |-> label_path,
         input_info |-> input_info, output_info |-> output_info]

\* the adapter right after __init__: no attribute has been set yet
Blank == [model |-> NoModel, model_path |-> "", label_path |-> "",
          input_info |-> <<>>, output_info |-> <<>>]

\* the model handle and the label path the adapter holds
Held(self) == [model |-> self.model, label_path |-> self.label_path]

StorePathsNoLabel(self, config) ==
    [self EXCEPT !.model_path = config.model_path]

\* lines 73-74
StorePaths(self, config) ==
    [self EXCEPT !.model_path = config.model_path,
                 !.label_path = config.label_path]

KeepInfo(old) == old

\* lines 81-82: self.input_info = [] and self.output_info = []
ResetInfo(old) == <<>>

KeywordsFitAlways(f) == TRUE

\* line 87: len(f._arg_keywords) <= len(f.inputs)
KeywordsFit(f) == Len(f.arg_keywords) <= Len(f.inputs)

RECURSIVE InputLoop(_, _, _)
\* lines 88-92, from index i (1-based) on; info is self.input_info so far
InputLoop(f, i, info) ==
    IF i > Len(f.arg_keywords) THEN [raised |-> "", info |-> info]
    ELSE IF i > Len(f.inputs) THEN [raised |-> "IndexError", info |-> info]
    ELSE LET ff == f.inputs[i]
             shape == prepShape(ff.shape)
         IN  IF ~NotResource(ff.dtype) THEN InputLoop(f, i + 1, info)
             ELSE IF shape.raised THEN [raised |-> "ValueError", info |-> info]
             ELSE InputLoop(f, i + 1,
                     Append(info, <<f.arg_keywords[i], shape.out, ff.dtype>>))

RECURSIVE OutputLoop(_, _, _)
\* lines 94-96
OutputLoop(f, i, info) ==
    IF i > Len(f.outputs) THEN [raised |-> "", info |-> info]
    ELSE LET out == f.outputs[i]
             shape == prepShape(out.shape)
         IN  IF shape.raised THEN [raised |-> "ValueError", info |-> info]
             ELSE OutputLoop(f, i + 1,
                     Append(info, <<out.name, shape.out, out.dtype>>))

\* The adapter after reconfigure(config), and how the call ended: "ok", or
\* the exception that left it.
Reconfigure(self, config) ==
    LET s1 == StorePaths(self, config)
        ld == SavedModelLoad(s1.model_path)
        s2 == [s1 EXCEPT !.model = ld.model,
                         !.input_info = ResetInfo(@),
                         !.output_info = ResetInfo(@)]
    IN  IF ld.raised THEN [self |-> s1, outcome |-> "LoadError"]
        ELSE IF "serving_default" \notin DOMAIN Signatures(s2.model)
        THEN [self |-> s2, outcome |-> "KeyError"]
        ELSE LET f == Signatures(s2.model).serving_default
                 ins == IF KeywordsFit(f) THEN InputLoop(f, 1, s2.input_info)
                        ELSE [raised |-> "", info |-> s2.input_info]
                 s3 == [s2 EXCEPT !.input_info = ins.info]
                 outs == OutputLoop(f, 1, s3.output_info)
             IN  IF ins.raised # "" THEN [self |-> s3, outcome |-> ins.raised]
                 ELSE [self |-> [s3 EXCEPT !.output_info = outs.info],
                       outcome |-> IF outs.raised = "" THEN "ok"
                                   ELSE outs.raised]

Response(op, outcome, error, value) ==
    [op |-> op, outcome |-> outcome, error |-> error, value |-> value]

SetSelf(s) ==
    /\ model' = s.model
    /\ model_path' = s.model_path
    /\ label_path' = s.label_path
    /\ input_info' = s.input_info
    /\ output_info' = s.output_info

reconfigure(config) ==
    LET r == Reconfigure(Self, config)
    IN  /\ SetSelf(r.self)
        /\ last_reconf' = [config |-> config, outcome |-> r.outcome,
                            before |-> Held(Self)]
        /\ resp' = IF r.outcome = "ok"
                   THEN Response("reconfigure", "returned", "", <<>>)
                   ELSE Response("reconfigure", "raised", r.outcome, <<>>)
        /\ UNCHANGED <<vconfig, listing, vresp>>

(***************************************************************************)
(* infer (lines 98-157)                                                    *)
(***************************************************************************)
InputNames == {"a", "b", "x"}
Contents == {"numbers", "text"}

\* an input_tensors dict, in insertion order
InputMaps ==
    UNION { [keys : {k}, data : [1..Len(k) -> Contents]]
            : k \in DistinctSeqs(InputNames, MaxInputTensors) }

ResultNames == {"y", "q"}

\* What self.model(data) does: it raises, or returns a name-keyed collection
\* of tensors, or a positional one (a tensor, a list) of n items.
Invocations ==
    { [raised |-> TRUE, kind |-> "none", keys |-> <<>>, n |-> 0] }
    \cup { [raised |-> FALSE, kind |-> "dict", keys |-> k, n |-> Len(k)]
           : k \in DistinctSeqs(ResultNames, MaxResults) }
    \cup { [raised |-> FALSE, kind |-> "seq", keys |-> <<>>, n |-> n]
           : n \in 0..MaxResults }

TooManyInputsOrAsMany(inputVars, info) == Len(inputVars) >= Len(info)

\* line 112
TooManyInputs(inputVars, info) == Len(inputVars) > Len(info)

\* lines 125-127: tf.convert_to_tensor(inputT, dtype=...); the dtypes of the
\* saved models are numeric
ConvertFails(inputT, dtype) == inputT = "text"

RECURSIVE ConvertLoop(_, _, _)
\* lines 123-128: the number of inputs converted, and whether one failed
ConvertLoop(input_tensors, info, i) ==
    IF i > Len(input_tensors.keys) THEN [raised |-> FALSE, converted |-> i - 1]
    ELSE IF ConvertFails(input_tensors.data[i], info[i][3])
    THEN [raised |-> TRUE, converted |-> i - 1]
    ELSE ConvertLoop(input_tensors, info, i + 1)

\* lines 148-155
PrepOutputs(res, info) ==
    IF res.n > 1
    THEN IF res.kind = "dict"
         THEN [raised |-> "", out |-> res.keys]
         ELSE [raised |-> "TypeError", out |-> <<>>]
    ELSE IF info = <<>> THEN [raised |-> "IndexError", out |-> <<>>]
    ELSE IF res.kind = "dict" THEN [raised |-> "KeyError", out |-> <<>>]
    ELSE IF res.n = 0 THEN [raised |-> "IndexError", out |-> <<>>]
    ELSE [raised |-> "", out |-> <<info[1][1]>>]

InferValue(input_tensors, converted, invoked, res, out) ==
    [n_inputs |-> Len(input_tensors.keys), converted |-> converted,
     invoked |-> invoked, res |-> res, out |-> out]

NoRes == [raised |-> TRUE, kind |-> "none", keys |-> <<>>, n |-> 0]

Infer(self, input_tensors, res) ==
    IF TooManyInputs(input_tensors.keys, self.input_info)
    THEN Response("infer", "raised", "more input tensors than the model expected",
                  InferValue(input_tensors, 0, FALSE, NoRes, <<>>))
    ELSE LET conv == ConvertLoop(input_tensors, self.input_info, 1)
             prep == PrepOutputs(res, self.output_info)
         IN  IF conv.raised
             THEN Response("infer", "raised", "convert_to_tensor",
                      InferValue(input_tensors, conv.converted, FALSE, NoRes, <<>>))
             ELSE IF res.raised
             THEN Response("infer", "raised", "model",
                      InferValue(input_tensors, conv.converted, TRUE, NoRes, <<>>))
             ELSE IF Len(self.output_info) < res.n
             THEN Response("infer", "raised",
                      "more output tensors than the model expected",
                      InferValue(input_tensors, conv.converted, TRUE, res, <<>>))
             ELSE IF prep.raised # ""
             THEN Response("infer", "raised", prep.raised,
                      InferValue(input_tensors, conv.converted, TRUE, res, <<>>))
             ELSE Response("infer", "returned", "",
                      InferValue(input_tensors, conv.converted, TRUE, res, prep.out))

infer(input_tensors, res) ==
    /\ resp' = Infer(Self, input_tensors, res)
    /\ UNCHANGED <<adapter, last_reconf, vconfig, listing, vresp>>

(***************************************************************************)
(* metadata (lines 159-189)                                                *)
(***************************************************************************)
NoExtra == [present |-> FALSE, labels |-> ""]

TensorInfo(name, shape, data_type, extra) ==
    [name |-> name, shape |-> shape, data_type |-> data_type, extra |-> extra]

\* lines 166-167
Extra(self) == [present |-> TRUE, labels |-> self.label_path]

\* lines 172-176
InputTensorInfo(inputT) ==
    TensorInfo(inputT[1], inputT[2], prepType(inputT[3]), NoExtra)

OutputTensorInfoNoExtra(output, extra) ==
    TensorInfo(output[1], output[2], prepType(output[3]), NoExtra)

\* lines 178-185
OutputTensorInfo(output, extra) ==
    TensorInfo(output[1], output[2], prepType(output[3]), extra)

Metadata(self) ==
    LET extra == Extra(self)
    IN  [name |-> "tensorflow_model",
         input_info |-> [i \in 1..Len(self.input_info) |->
                            InputTensorInfo(self.input_info[i])],
         output_info |-> [i \in 1..Len(self.output_info) |->
                            OutputTensorInfo(self.output_info[i], extra)]]

metadata ==
    /\ resp' = Response("metadata", "returned", "", Metadata(Self))
    /\ UNCHANGED <<adapter, last_reconf, vconfig, listing, vresp>>

(***************************************************************************)
(* do_command (lines 191-198)                                              *)
(***************************************************************************)
Commands == {"ping", "reset"}

\* line 198: return NotImplementedError -- the class is the return value
DoCommand(command) ==
    Response("do_command", "returned", "", "NotImplementedError")

do_command(command) ==
    /\ resp' = DoCommand(command)
    /\ UNCHANGED <<adapter, last_reconf, vconfig, listing, vresp>>

(***************************************************************************)
(* Specifications                                                          *)
(***************************************************************************)
\* new_service (lines 30-36): the adapter exists once its first reconfigure
\* has returned.
Init ==
    \E config \in Configs :
        LET r == Reconfigure(Blank, config)
        IN  /\ r.outcome = "ok"
            /\ model = r.self.model
            /\ model_path = r.self.model_path
            /\ label_path = r.self.label_path
            /\ input_info = r.self.input_info
            /\ output_info = r.self.output_info
            /\ last_reconf = [config |-> config, outcome |-> "ok",
                              before |-> Held(Blank)]
            /\ resp = Response("new_service", "returned", "", <<>>)
            /\ vconfig = <<>>
            /\ listing = <<>>
            /\ vresp = NotCalled

Next ==
    \/ \E config \in Configs : reconfigure(config)
    \/ \E input_tensors \in InputMaps, res \in Invocations :
           infer(input_tensors, res)
    \/ metadata
    \/ \E command \in Commands : do_command(command)

Spec == Init /\ [][Next]_vars

\* validate_config is a class method: it runs on a configuration and a
\* directory, without an adapter.
InitValidate ==
    /\ vconfig \in ConfigPaths
    /\ listing \in Directories
    /\ vresp = NotCalled
    /\ model = Blank.model
    /\ model_path = Blank.model_path
    /\ label_path = Blank.label_path
    /\ input_info = Blank.input_info
    /\ output_info = Blank.output_info
    /\ last_reconf = [config |-> [model_path |-> "", label_path |-> ""],
                      outcome |-> "none", before |-> Held(Blank)]
    /\ resp = Response("none", "none", "", <<>>)

NextValidate == validate_config

SpecValidate == InitValidate /\ [][NextValidate]_vars

(***************************************************************************)
(* Properties                                                              *)
(***************************************************************************)
\* the directory at the configured model_path (no entries when there is none)
DirAt(path) == IF path \in {<<"m">>, <<"m", "/">>} THEN listing ELSE <<>>

HasMarker(name) ==
    \E i \in 1..(Len(name) - 2) :
        name[i] = "." /\ name[i + 1] = "p" /\ name[i + 2] = "b"

MatchingEntries == { n \in DOMAIN DirAt(vconfig) : HasMarker(n) }

\* C1: validate_config fails on an empty model_path, fails when no entry of
\* the directory at model_path has ".pb" in its name, and otherwise returns
\* the empty dependency list whatever the sizes; a warning is logged exactly
\* when a matching entry is larger than 500 MB, and only on success.
C1_ValidateConfig ==
    vresp.outcome # "none" =>
        /\ vconfig = <<>> => vresp.outcome = "raised"
        /\ MatchingEntries = {} => vresp.outcome = "raised"
        /\ (vconfig # <<>> /\ MatchingEntries # {}) =>
               (vresp.outcome = "returned" /\ vresp.value = <<>>)
        /\ vresp.warned # {} <=>
               \E n \in MatchingEntries : listing[n] > 500 * 1024 * 1024
        /\ vresp.warned # {} => vresp.outcome = "returned"

\* a directory with a matching file above the limit and one of exactly 500 MB
C1_Witness ==
    /\ vresp.outcome = "returned"
    /\ \E n \in vresp.warned : listing[n] = 500 * 1024 * 1024 + 1
    /\ \E n \in MatchingEntries \ vresp.warned : listing[n] = 500 * 1024 * 1024

\* the serving_default signature of the saved model at a path
HasSignature(path) ==
    path \in DOMAIN SavedModels /\ "serving_default" \in DOMAIN SavedModels[path]

SigAt(path) == SavedModels[path].serving_default

\* unknown dimensions as -1
DimsOf(shape) ==
    [d \in 1..Len(shape.dims) |->
        IF shape.dims[d].known THEN shape.dims[d].v ELSE -1]

\* the k-th smallest element of a finite set of integers
Nth(P, k) == CHOOSE i \in P : Cardinality({ j \in P : j < i }) = k - 1

\* the keyword positions that have a declared, non-resource input
DataPositions(f) ==
    { i \in 1..Len(f.arg_keywords) :
        i <= Len(f.inputs) /\ f.inputs[i].dtype # resource }

NonResourceInputs(f) ==
    [k \in 1..Cardinality(DataPositions(f)) |->
        LET i == Nth(DataPositions(f), k)
        IN  <<f.arg_keywords[i], DimsOf(f.inputs[i].shape), f.inputs[i].dtype>>]

DeclaredOutputs(f) ==
    [i \in 1..Len(f.outputs) |->
        <<f.outputs[i].name, DimsOf(f.outputs[i].shape), f.outputs[i].dtype>>]

\* what a completed reconfigure records for signature f
DescriptorInputs(f) ==
    IF Len(f.arg_keywords) <= Len(f.inputs) THEN NonResourceInputs(f) ELSE <<>>

LastPath == last_reconf.config.model_path

Names(info) == { info[i][1] : i \in 1..Len(info) }

\* the names in a sequence of TensorInfo
InfoNames(infos) == { infos[i].name : i \in 1..Len(infos) }

\* C2: after a successful reconfigure the model handle, input_info,
\* output_info and label_path are those a fresh adapter reconfigured with the
\* same configuration holds, every descriptor comes from that configuration's
\* model, and a later metadata call reports exactly them.
C2_LastReconfigureOnly ==
    last_reconf.outcome = "ok" =>
        /\ Self = Reconfigure(Blank, last_reconf.config).self
        /\ model = LastPath
        /\ label_path = last_reconf.config.label_path
        /\ Names(input_info) \subseteq Range(SigAt(LastPath).arg_keywords)
        /\ Names(output_info) =
               { SigAt(LastPath).outputs[i].name :
                   i \in 1..Len(SigAt(LastPath).outputs) }
        /\ resp.op = "metadata" =>
               /\ InfoNames(resp.value.input_info) = Names(DescriptorInputs(SigAt(LastPath)))
               /\ InfoNames(resp.value.output_info) = Names(DeclaredOutputs(SigAt(LastPath)))
        /\ resp.op = "infer" =>
               (resp.error = "more input tensors than the model expected"
                   <=> resp.value.n_inputs > Len(DescriptorInputs(SigAt(LastPath))))

\* a metadata call after model B replaced a different model A
C2_Witness ==
    /\ last_reconf.outcome = "ok"
    /\ last_reconf.before.model \notin {NoModel, model}
    /\ Names(output_info) \cap
           { SigAt(last_reconf.before.model).outputs[i].name :
               i \in 1..Len(SigAt(last_reconf.before.model).outputs) } = {}
    /\ resp.op = "metadata"

\* C3: whenever a call can start, input_info and output_info are both the
\* complete descriptor lists of the model held in the model handle.
C3_InfoPairOfHeldModel ==
    /\ HasSignature(model)
    /\ input_info = DescriptorInputs(SigAt(model))
    /\ output_info = DeclaredOutputs(SigAt(model))

\* C4: infer with more entries than input_info has descriptors raises the
\* arity error before any input is converted and before the model is
\* invoked; with as many or fewer entries the check never fails.
C4_InputArity ==
    resp.op = "infer" =>
        /\ resp.value.n_inputs > Len(input_info) =>
               /\ resp.outcome = "raised"
               /\ resp.error = "more input tensors than the model expected"
               /\ resp.value.converted = 0
               /\ ~resp.value.invoked
        /\ resp.value.n_inputs <= Len(input_info) =>
               resp.error # "more input tensors than the model expected"

\* too many inputs for a model that declares some
C4_Witness ==
    /\ resp.op = "infer"
    /\ input_info # <<>>
    /\ resp.value.n_inputs > Len(input_info)
    /\ resp.error = "more input tensors than the model expected"

\* C5: when infer passes the input check and the invocation produces exactly
\* one result tensor, infer returns one entry keyed by the first output
\* descriptor's name; when it produces more than one, infer returns one
\* entry per result, keyed by the runtime's identifiers.
C5_ResultKeys ==
    (resp.op = "infer" /\ resp.value.invoked /\ ~resp.value.res.raised) =>
        /\ resp.value.res.n = 1 =>
               /\ resp.outcome = "returned"
               /\ Len(resp.value.out) = 1
               /\ output_info # <<>>
               /\ resp.value.out[1] = output_info[1][1]
        /\ resp.value.res.n > 1 =>
               /\ resp.outcome = "returned"
               /\ Len(resp.value.out) = resp.value.res.n
               /\ resp.value.out = resp.value.res.keys

\* C6: metadata returns the name "tensorflow_model", one descriptor per entry
\* of input_info and of output_info in order with the same name and shape;
\* each output descriptor carries the label_path of the last reconfigure as
\* its extra, also when empty, and no input descriptor carries an extra.
C6_Metadata ==
    resp.op = "metadata" =>
        LET md == resp.value
        IN  /\ md.name = "tensorflow_model"
            /\ Len(md.input_info) = Len(input_info)
            /\ Len(md.output_info) = Len(output_info)
            /\ \A i \in 1..Len(input_info) :
                   /\ md.input_info[i].name = input_info[i][1]
                   /\ md.input_info[i].shape = input_info[i][2]
                   /\ ~md.input_info[i].extra.present
            /\ \A i \in 1..Len(output_info) :
                   /\ md.output_info[i].name = output_info[i][1]
                   /\ md.output_info[i].shape = output_info[i][2]
                   /\ md.output_info[i].extra.present
                   /\ md.output_info[i].extra.labels
                          = last_reconf.config.label_path

\* metadata of a model with inputs and outputs, configured with an empty
\* label_path
C6_Witness ==
    /\ resp.op = "metadata"
    /\ last_reconf.config.label_path = ""
    /\ Len(resp.value.input_info) > 0
    /\ Len(resp.value.output_info) > 1

\* C7: every do_command call ends as an error signalling "not implemented"
\* and leaves model, input_info, output_info, model_path and label_path
\* unchanged.
C7_DoCommandRaises ==
    [][resp'.op = "do_command" =>
          (resp'.outcome = "raised" /\ UNCHANGED adapter)]_vars

\* C8 as stated: after a successful reconfigure input_info is the sequence
\* of (keyword i, shape with unknown dimensions as -1, dtype) over the
\* keyword positions whose declared input is not a resource, and
\* output_info has one descriptor per declared output, in order.
C8_Original ==
    last_reconf.outcome = "ok" =>
        /\ input_info = NonResourceInputs(SigAt(LastPath))
        /\ output_info = DeclaredOutputs(SigAt(LastPath))

\* C8: as above when the signature has no more keyword names than declared
\* inputs; when it has more, input_info is empty. No descriptor of
\* input_info has the resource dtype.
C8_Descriptors ==
    last_reconf.outcome = "ok" =>
        LET f == SigAt(LastPath)
        IN  /\ \A i \in 1..Len(input_info) : input_info[i][3] # resource
            /\ Len(f.arg_keywords) <= Len(f.inputs) =>
                   input_info = NonResourceInputs(f)
            /\ Len(f.arg_keywords) > Len(f.inputs) => input_info = <<>>
            /\ output_info = DeclaredOutputs(f)

\* a resource input was skipped and an unknown dimension recorded as -1
C8_Witness ==
    /\ last_reconf.outcome = "ok"
    /\ last_reconf.before.model # NoModel
    /\ \E i \in 1..Len(SigAt(LastPath).arg_keywords) :
           SigAt(LastPath).inputs[i].dtype = resource
    /\ \E i \in 1..Len(input_info) : -1 \in Range(input_info[i][2])

\* the last reconfigure loaded a signature with more keywords than inputs
KeywordsExceed ==
    /\ last_reconf.outcome # "LoadError"
    /\ HasSignature(LastPath)
    /\ Len(SigAt(LastPath).arg_keywords) > Len(SigAt(LastPath).inputs)

\* C9 as stated: with more keyword names than declared inputs reconfigure
\* fails with an index-out-of-range error.
C9_Original == KeywordsExceed => last_reconf.outcome = "IndexError"

\* C9: reconfigure compares the two lengths; with more keyword names than
\* declared inputs it raises no index error, leaves input_info empty and
\* goes on to build output_info.
C9_GuardSkipsInputs ==
    KeywordsExceed =>
        /\ last_reconf.outcome # "IndexError"
        /\ input_info = <<>>
        /\ (\A i \in 1..Len(SigAt(LastPath).outputs) :
                SigAt(LastPath).outputs[i].shape.rank_known)
               => /\ last_reconf.outcome = "ok"
                  /\ output_info = DeclaredOutputs(SigAt(LastPath))

C9_Witness ==
    /\ KeywordsExceed
    /\ last_reconf.outcome = "ok"
    /\ last_reconf.before.model # NoModel

\* a reconfigure call that ended with the load failing
LoadFailed == resp.op = "reconfigure" /\ last_reconf.outcome = "LoadError"

\* C10: when the load fails on an adapter holding a model, the call raises,
\* model, input_info and output_info stay as they were, model_path and
\* label_path are those of the new configuration, and a metadata call made
\* afterwards returns the previous descriptors with the new label path.
C10_FailedLoad ==
    /\ [][LoadFailed' =>
            /\ resp'.outcome = "raised"
            /\ model' = model
            /\ input_info' = input_info
            /\ output_info' = output_info
            /\ model_path' = last_reconf'.config.model_path
            /\ label_path' = last_reconf'.config.label_path]_vars
    /\ [][(LoadFailed /\ resp'.op = "metadata") =>
            /\ Len(resp'.value.input_info) = Len(input_info)
            /\ \A i \in 1..Len(input_info) :
                   resp'.value.input_info[i].name = input_info[i][1]
            /\ Len(resp'.value.output_info) = Len(output_info)
            /\ \A i \in 1..Len(output_info) :
                   /\ resp'.value.output_info[i].name = output_info[i][1]
                   /\ resp'.value.output_info[i].extra.labels
                          = last_reconf.config.label_path]_vars

\* metadata after a failed load that named another path and another label
C10_Witness ==
    /\ last_reconf.outcome = "LoadError"
    /\ resp.op = "metadata"
    /\ last_reconf.before.model = model
    /\ model # model_path
    /\ last_reconf.before.label_path # label_path
    /\ resp.value.output_info # <<>>

====
